---- MODULE Spec2Model ----
(***************************************************************************)
(* Model of app.py: the Flask back end of the Twin-Talk chat widget.       *)
(*                                                                         *)
(* Requests are served one after another; the only state that outlives a   *)
(* request is the log file and the directory of temporary mp3 files.  The  *)
(* handlers of /transcribe_and_summarize and /tts are split at their       *)
(* outbound calls (speech-to-text, chat completion, text-to-speech), whose *)
(* results are inputs of the step that resumes the handler.                *)
(*                                                                         *)
(* A string is a record [lead, tag, n, trail]: `lead` whitespace           *)
(* characters, then the first n characters of the whitespace-free body     *)
(* named `tag`, then `trail` whitespace characters.  A completion text is  *)
(* a sequence of tokens.                                                   *)
(***************************************************************************)
EXTENDS Integers, Sequences, FiniteSets, TLC

\* ---------------------------------------------------------------- bounds
MaxRequests == 2
MaxPad      == 1
MaxContent  == 3

\* ------------------------------------------------------ program constants
TtsMaxLen == 4000
LogTrunc  == 60

SUMMARY_PROMPT  == "Twin-Talk Concierge"
ORIGINAL_PROMPT == "Twin-Talk Translator"
WHISPER_MODEL   == "gpt-4o-mini-audio-preview"
TTS_MODEL       == "tts-1"
GPT_MODEL       == "gpt-4o"

TS  == "/transcribe_and_summarize"
TTS == "/tts"

\* ----------------------------------------------------------------- strings
Min(a, b) == IF a < b THEN a ELSE b

Str(l, g, k, t) == [lead |-> l, tag |-> g, n |-> k, trail |-> t]
EmptyStr == Str(0, "", 0, 0)

\* len(s)
StrLen(s) == s.lead + s.n + s.trail

\* s.strip(): surrounding whitespace removed; an all-whitespace string
\* becomes the empty string
Strip(s) == IF s.n = 0 THEN EmptyStr ELSE Str(0, s.tag, s.n, 0)

\* s[:k]
Prefix(s, k) ==
    LET l == Min(s.lead, k)
        m == Min(s.n, k - l)
        t == Min(s.trail, k - l - m)
    IN  IF m = 0 THEN Str(l + t, "", 0, 0) ELSE Str(l, s.tag, m, t)

\* `not s` of a str
FalsyM(s) == FALSE
Falsy(s) == StrLen(s) = 0

\* an optional value is <<>> (absent, None) or <<v>>
\* request.form.get(key, default)
FormGet(field, default) == IF field = <<>> THEN default ELSE field[1]

\* (request.json.get("text") or "")
OrEmpty(field) == IF field = <<>> \/ Falsy(field[1]) THEN EmptyStr ELSE field[1]

\* -------------------------------------------------------------- the inputs
Pads == 0 .. MaxPad

Padded(g, k) == { Str(l, g, k, t) : l \in Pads, t \in Pads }
Blank == { Str(l, "", 0, 0) : l \in Pads }

\* text_input: "", whitespace, a short text bare and padded, a text longer
\* than a log line keeps
TypedTexts == { EmptyStr, Str(2, "", 0, 0), Str(0, "typed", 2, 0), Str(1, "typed", 2, 1),
                Str(0, "typed", LogTrunc + 1, 0) }
\* what the speech-to-text service returns
HeardTexts == { EmptyStr, Str(1, "", 0, 0), Str(0, "heard", 3, 0), Str(1, "heard", 3, 1) }
LangTexts  == { Str(1, "en", 2, 0) }
\* the text of a /tts request: lengths around both limits, with all paddings
SpeakTexts == Blank
              \cup UNION { Padded("say", k) : k \in {1, TtsMaxLen, TtsMaxLen + 1} }

Modes == { "summary", "original", "verbatim" }
AudioFiles == { [filename |-> ""], [filename |-> "clip.webm"] }
Opt(S) == { <<>> } \cup { <<v>> : v \in S }

Forms == [ mode : Opt(Modes), target_lang : Opt(LangTexts),
           text_input : Opt(TypedTexts), audio_file : Opt(AudioFiles) ]

\* the requests of the specification that enumerates the completion texts
TypedForms == [ mode : { <<>>, <<"original">> }, target_lang : { <<>> },
                text_input : { <<Str(0, "typed", 2, 0)>> }, audio_file : { <<>> } ]

UpstreamMsgs == { "upstream timeout" }
AudioBlobs == { "mp3 bytes" }

\* completion texts: "{" and "}", a noise word, and two member lists of a
\* JSON object (all seven fields as strings; the seven fields, ja_text null)
Tokens == { "{", "}", "w", "M7", "Mnull" }
Contents == UNION { [1 .. k -> Tokens] : k \in 0 .. MaxContent }

\* the completion texts of the specification of the whole server
SampleContents ==
    { <<>>, <<"}", "{">>, <<"{", "w", "}">>, <<"{", "}">>,
      <<"{", "M7", "}">>, <<"{", "Mnull", "}">>, <<"w", "{", "M7", "}", "w">> }

Fields == { "detected_language", "original_text", "summarized_text", "ja_text",
            "target_text", "speak_original", "speak_target" }


\* ------------------------------------------------------------ _extract_json
JsonDecodeMsg == "Expecting property name enclosed in double quotes"
NotFoundMsg   == "JSON not found in GPT response"

Ok(v)     == [ok |-> TRUE, val |-> v]
Raise(m)  == [ok |-> FALSE, msg |-> m]

Positions(c, tok) == { i \in 1 .. Len(c) : c[i] = tok }
SetMin(S) == CHOOSE x \in S : \A y \in S : x <= y
SetMax(S) == CHOOSE x \in S : \A y \in S : y <= x

\* re.search(r"\{.*\}", content, re.S): the leftmost "{" that has a "}" after
\* it, extended greedily to the last "}"; <<>> when there is no match
ReSearch(c) ==
    LET opens  == Positions(c, "{")
        closes == Positions(c, "}")
    IN  IF opens = {} \/ closes = {} \/ SetMax(closes) < SetMin(opens)
        THEN <<>>
        ELSE << SubSeq(c, SetMin(opens), SetMax(closes)) >>

Members(tok) ==
    IF tok = "M7" THEN [f \in Fields |-> "string"]
    ELSE [f \in Fields |-> IF f = "ja_text" THEN "null" ELSE "string"]

\* json.loads on a token sequence: an object is "{" "}" or "{" members "}"
JsonLoads(s) ==
    IF Len(s) = 2 /\ s[1] = "{" /\ s[2] = "}"
        THEN Ok([f \in {} |-> "string"])
    ELSE IF Len(s) = 3 /\ s[1] = "{" /\ s[2] \in {"M7", "Mnull"} /\ s[3] = "}"
        THEN Ok(Members(s[2]))
    ELSE Raise(JsonDecodeMsg)

_extract_jsonM(content) ==
    LET m == ReSearch(content)
    IN  IF m = <<>> THEN Ok([f \in {} |-> "string"]) ELSE JsonLoads(m[1])

_extract_json(content) ==
    LET m == ReSearch(content)
    IN  IF m = <<>> THEN Raise(NotFoundMsg) ELSE JsonLoads(m[1])

\* -------------------------------------------------------------------- state
VARIABLES
    pc,           \* where the request in progress stands
    endpoint,     \* the route of the request in progress
    served,       \* number of requests received so far
    form,         \* request.form / request.files of a /transcribe_and_summarize request
    json,         \* request.json["text"] of a /tts request
    mode, target_lang, text_input, audio_file, user_text,   \* locals of transcribe_and_summarize
    text,         \* local of tts
    transcript,   \* what the speech-to-text call returned, <<>> if nothing yet
    completion,   \* what the chat completion returned, <<>> if nothing yet
    calls,        \* outbound calls of the request in progress, in order
    trace,        \* steps of the request in progress, in order
    response,     \* the response of the request, <<>> while it is in progress
    log,          \* lines of LOG_FILE
    logMark,      \* Len(log) when the request in progress arrived
    scratch       \* temporary files that exist

locals == << mode, target_lang, text_input, audio_file, user_text, text >>
vars == << pc, endpoint, served, form, json, locals, transcript, completion,
           calls, trace, response, log, logMark, scratch >>

NoForm == [ mode |-> <<>>, target_lang |-> <<>>, text_input |-> <<>>, audio_file |-> <<>> ]

Init ==
    /\ pc = "idle" /\ endpoint = "none" /\ served = 0
    /\ form = NoForm /\ json = <<>>
    /\ mode = "" /\ target_lang = EmptyStr /\ text_input = EmptyStr
    /\ audio_file = <<>> /\ user_text = EmptyStr /\ text = EmptyStr
    /\ transcript = <<>> /\ completion = <<>>
    /\ calls = <<>> /\ trace = <<>> /\ response = <<>>
    /\ log = <<>> /\ logMark = 0 /\ scratch = {}

\* log_event(action, info): one line appended to LOG_FILE (timestamp and
\* caller address left out)
log_eventM(lines, action, info) == lines
log_event(lines, action, info) == Append(lines, [action |-> action, info |-> info])

\* jsonify({"error": msg}), status
JsonError(msg, status) ==
    [status |-> status, type |-> "application/json", body |-> [error |-> msg]]

\* a request arrives: the server takes it when no request is in progress
Arrive(route) ==
    /\ pc \in {"idle", "done"}
    /\ served < MaxRequests
    /\ served' = served + 1
    /\ endpoint' = route
    /\ logMark' = Len(log)
    /\ transcript' = <<>> /\ completion' = <<>>

\* ------------------------------------------------------------ GET /, /whoami
index ==
    /\ Arrive("/")
    /\ log' = log_event(log, "VIEW", "/")
    /\ response' = [status |-> 200, type |-> "text/html", body |-> "index.html"]
    /\ pc' = "done"
    /\ calls' = <<>> /\ trace' = <<"log", "respond">>
    /\ form' = NoForm /\ json' = <<>>
    /\ mode' = "" /\ target_lang' = EmptyStr /\ text_input' = EmptyStr
    /\ audio_file' = <<>> /\ user_text' = EmptyStr /\ text' = EmptyStr
    /\ UNCHANGED scratch

whoami ==
    /\ Arrive("/whoami")
    /\ response' = [status |-> 200, type |-> "application/json", body |-> [ip |-> "client"]]
    /\ pc' = "done"
    /\ calls' = <<>> /\ trace' = <<"respond">>
    /\ form' = NoForm /\ json' = <<>>
    /\ mode' = "" /\ target_lang' = EmptyStr /\ text_input' = EmptyStr
    /\ audio_file' = <<>> /\ user_text' = EmptyStr /\ text' = EmptyStr
    /\ UNCHANGED << log, scratch >>

\* ------------------------------------------- POST /transcribe_and_summarize
\* `audio_file and audio_file.filename`
HasAudioM(a) == FALSE
HasAudio(a) == a # <<>> /\ a[1].filename # ""

\* SUMMARY_PROMPT if mode == "summary" else ORIGINAL_PROMPT
SelectPrompt(m) == IF m = "summary" THEN SUMMARY_PROMPT ELSE ORIGINAL_PROMPT

ChatCall(prompt, ut, tl) ==
    [ svc |-> "chat", model |-> GPT_MODEL, system |-> prompt,
      user |-> [text |-> ut, target_lang |-> tl], temperature |-> 0 ]

\* lines 164-181: the empty-input check, the INPUT log line and the chat
\* completion request, for user text ut
Proceed(ut, m, tl, cl, tr) ==
    /\ user_text' = ut
    /\ IF Falsy(ut)
       THEN /\ response' = JsonError("No input", 400)
            /\ pc' = "done"
            /\ calls' = cl
            /\ trace' = tr \o <<"respond">>
            /\ UNCHANGED log
       ELSE /\ log' = log_event(log, "INPUT", Prefix(ut, LogTrunc))
            /\ calls' = Append(cl, ChatCall(SelectPrompt(m), ut, tl))
            /\ trace' = tr \o <<"log", "chat_call">>
            /\ pc' = "gpt"
            /\ response' = <<>>

\* lines 146-167 up to the first outbound call
transcribe_and_summarize(f) ==
    /\ Arrive(TS)
    /\ form' = f /\ json' = <<>> /\ text' = EmptyStr
    /\ mode' = FormGet(f.mode, "summary")
    /\ target_lang' = Strip(FormGet(f.target_lang, EmptyStr))
    /\ text_input' = Strip(FormGet(f.text_input, EmptyStr))
    /\ audio_file' = f.audio_file
    /\ IF HasAudio(f.audio_file)
       THEN /\ calls' = << [svc |-> "stt", model |-> WHISPER_MODEL,
                           file |-> f.audio_file[1].filename] >>
            /\ trace' = <<"stt_call">>
            /\ pc' = "whisper"
            /\ user_text' = EmptyStr
            /\ response' = <<>>
            /\ UNCHANGED log
       ELSE Proceed(Strip(FormGet(f.text_input, EmptyStr)), FormGet(f.mode, "summary"),
                    Strip(FormGet(f.target_lang, EmptyStr)), <<>>, <<>>)
    /\ UNCHANGED scratch

\* client.audio.transcriptions.create returns the text t
WhisperReturns(t) ==
    /\ pc = "whisper"
    /\ transcript' = <<t>>
    /\ Proceed(Strip(t), mode, target_lang, calls, Append(trace, "stt_ok"))
    /\ UNCHANGED << endpoint, served, form, json, mode, target_lang, text_input,
                    audio_file, text, completion, logMark, scratch >>

\* client.audio.transcriptions.create raises e: lines 158-160
WhisperRaisesM(e) ==
    /\ pc = "whisper"
    /\ Proceed(text_input, mode, target_lang, calls, Append(trace, "stt_err"))
    /\ UNCHANGED << endpoint, served, form, json, mode, target_lang, text_input,
                    audio_file, text, transcript, completion, logMark, scratch >>

WhisperRaises(e) ==
    /\ pc = "whisper"
    /\ log' = log_event(log, "WHISPER_ERR", e)
    /\ response' = JsonError("Whisper error: " \o e, 500)
    /\ pc' = "done"
    /\ trace' = trace \o <<"stt_err", "log_err", "respond">>
    /\ UNCHANGED << endpoint, served, form, json, locals, transcript, completion,
                    calls, logMark, scratch >>

\* client.chat.completions.create returns content c: lines 182-186
ChatReturns(c) ==
    /\ pc = "gpt"
    /\ completion' = <<c>>
    /\ LET r == _extract_json(c)
       IN  IF r.ok
           THEN /\ response' = [status |-> 200, type |-> "application/json", body |-> r.val]
                /\ trace' = trace \o <<"chat_ok", "extract", "respond">>
                /\ UNCHANGED log
           ELSE /\ log' = log_event(log, "GPT_ERR", r.msg)
                /\ response' = JsonError(r.msg, 500)
                /\ trace' = trace \o <<"chat_ok", "extract", "log_err", "respond">>
    /\ pc' = "done"
    /\ UNCHANGED << endpoint, served, form, json, locals, transcript, calls,
                    logMark, scratch >>

\* client.chat.completions.create raises e: lines 184-186
ChatRaises(e) ==
    /\ pc = "gpt"
    /\ log' = log_event(log, "GPT_ERR", e)
    /\ response' = JsonError(e, 500)
    /\ pc' = "done"
    /\ trace' = trace \o <<"chat_err", "log_err", "respond">>
    /\ UNCHANGED << endpoint, served, form, json, locals, transcript, completion,
                    calls, logMark, scratch >>

\* ------------------------------------------------------------------ POST /tts
\* len(text) > 4000
TooLongM(s) == StrLen(s) >= TtsMaxLen
TooLong(s) == StrLen(s) > TtsMaxLen

SpeechCall(input, fmt) ==
    [ svc |-> "tts", model |-> TTS_MODEL, voice |-> "alloy", input |-> input,
      format |-> fmt ]

\* an exception no handler of the route catches: Flask answers 500 with its
\* own HTML page and writes nothing to LOG_FILE
Unhandled == [status |-> 500, type |-> "text/html", body |-> "Internal Server Error"]

\* lines 191-200 up to the first outbound call
tts(j) ==
    /\ Arrive(TTS)
    /\ json' = j /\ form' = NoForm
    /\ text' = Strip(OrEmpty(j))
    /\ mode' = "" /\ target_lang' = EmptyStr /\ text_input' = EmptyStr
    /\ audio_file' = <<>> /\ user_text' = EmptyStr
    /\ IF Falsy(Strip(OrEmpty(j)))
       THEN /\ response' = JsonError("empty text", 400)
            /\ pc' = "done" /\ calls' = <<>> /\ trace' = <<"respond">>
       ELSE IF TooLong(Strip(OrEmpty(j)))
       THEN /\ response' = JsonError("too long", 400)
            /\ pc' = "done" /\ calls' = <<>> /\ trace' = <<"respond">>
       ELSE /\ calls' = << SpeechCall(Strip(OrEmpty(j)), "mp3") >>
            /\ trace' = <<"tts_call">>
            /\ pc' = "tts_first"
            /\ response' = <<>>
    /\ UNCHANGED << log, scratch >>

\* either call of client.audio.speech.create returns audio a: lines 204-206,
\* a temporary file made with delete=False, written and sent
SpeechReturns(a) ==
    /\ pc \in {"tts_first", "tts_fallback"}
    /\ scratch' = scratch \cup { [request |-> served, bytes |-> a] }
    /\ response' = [status |-> 200, type |-> "audio/mpeg", body |-> a]
    /\ pc' = "done"
    /\ trace' = trace \o <<"tts_ok", "tmp_write", "respond">>
    /\ UNCHANGED << endpoint, served, form, json, locals, transcript, completion,
                    calls, log, logMark >>

\* the first call raises TypeError: line 202, the call without `format`
SpeechTypeError ==
    /\ pc = "tts_first"
    /\ calls' = Append(calls, SpeechCall(text, ""))
    /\ trace' = trace \o <<"tts_type_error", "tts_call">>
    /\ pc' = "tts_fallback"
    /\ UNCHANGED << endpoint, served, form, json, locals, transcript, completion,
                    response, log, logMark, scratch >>

\* the first call raises e, not a TypeError, or the second call raises e:
\* nothing in tts catches it
SpeechRaises(e) ==
    /\ pc \in {"tts_first", "tts_fallback"}
    /\ response' = Unhandled
    /\ pc' = "done"
    /\ trace' = trace \o <<"tts_err", "respond">>
    /\ UNCHANGED << endpoint, served, form, json, locals, transcript, completion,
                    calls, log, logMark, scratch >>

\* ------------------------------------------------------------ specification
\* the whole server
Next ==
    \/ index
    \/ whoami
    \/ \E f \in Forms : transcribe_and_summarize(f)
    \/ \E t \in HeardTexts : WhisperReturns(t)
    \/ \E e \in UpstreamMsgs : WhisperRaises(e)
    \/ \E c \in SampleContents : ChatReturns(c)
    \/ \E e \in UpstreamMsgs : ChatRaises(e)
    \/ \E j \in Opt(SpeakTexts) : tts(j)
    \/ \E a \in AudioBlobs : SpeechReturns(a)
    \/ SpeechTypeError
    \/ \E e \in UpstreamMsgs : SpeechRaises(e)

Spec == Init /\ [][Next]_vars

\* typed requests, with every completion text of up to MaxContent tokens
NextExtract ==
    \/ \E f \in TypedForms : transcribe_and_summarize(f)
    \/ \E c \in Contents : ChatReturns(c)
    \/ \E e \in UpstreamMsgs : ChatRaises(e)

SpecExtract == Init /\ [][NextExtract]_vars

\* ------------------------------------------------------------------- claims
Has(ev) == \E i \in DOMAIN trace : trace[i] = ev
Times(ev) == Cardinality({ i \in DOMAIN trace : trace[i] = ev })
\* every occurrence of b in the trace has an a before it
Before(a, b) == \A j \in DOMAIN trace : trace[j] = b => \E i \in 1 .. j - 1 : trace[i] = a
CallsTo(svc) == { i \in DOMAIN calls : calls[i].svc = svc }
Finished(route) == pc = "done" /\ endpoint = route
IsError(msg, status) ==
    /\ response.status = status
    /\ response.type = "application/json"
    /\ DOMAIN response.body = {"error"}
    /\ response.body.error = msg

\* the request carries a file with a filename / a text_input of length > 0
CarriesAudio == form.audio_file # <<>> /\ form.audio_file[1].filename # ""
CarriesText == form.text_input # <<>> /\ StrLen(form.text_input[1]) > 0

\* C1: a /transcribe_and_summarize request with no text_input (or an empty
\* one) and no audio_file ends at once with 400 {"error": "No input"}, and
\* no chat completion call is issued for it.
C1_NoInput ==
    (endpoint = TS /\ form.audio_file = <<>> /\ ~CarriesText)
        => /\ pc = "done"
           /\ IsError("No input", 400)
           /\ CallsTo("chat") = {}

C1_Witness ==
    /\ Finished(TS) /\ form.audio_file = <<>> /\ form.text_input = <<>>
    /\ response.status = 400

\* the text a /tts request carries, as sent
SentText == IF json = <<>> THEN EmptyStr ELSE json[1]

TtsLimits(s) ==
    /\ StrLen(s) = 0 => pc = "done" /\ IsError("empty text", 400) /\ calls = <<>>
    /\ StrLen(s) > TtsMaxLen => pc = "done" /\ IsError("too long", 400) /\ calls = <<>>
    /\ (StrLen(s) >= 1 /\ StrLen(s) <= TtsMaxLen) =>
           /\ CallsTo("tts") # {}
           /\ pc = "done" => response.status # 400

\* C2 as stated: the text of a /tts request, as sent, is rejected with
\* "empty text" when its length is 0 and with "too long" when its length
\* exceeds 4000, before any text-to-speech call; a text of length 1 to 4000
\* is not rejected.
C2_SentTextLimits == endpoint = TTS => TtsLimits(SentText)

\* C2 amended: the same three cases hold of the text with its surrounding
\* whitespace removed.
C2_TrimmedTextLimits == endpoint = TTS => TtsLimits(Strip(SentText))

C2_Witness ==
    /\ Finished(TTS)
    /\ StrLen(SentText) > TtsMaxLen /\ StrLen(Strip(SentText)) = TtsMaxLen
    /\ response.status = 200

\* C3: the Verbatim instruction is sent to the chat completion only when
\* mode is "original"; every other mode, the absent one included, sends the
\* Summarize instruction.
C3_PolicySelection ==
    endpoint = TS =>
        \A i \in CallsTo("chat") :
            /\ form.mode # <<"original">> => calls[i].system = SUMMARY_PROMPT
            /\ calls[i].system = ORIGINAL_PROMPT => form.mode = <<"original">>

\* C4: every 200 response of /transcribe_and_summarize holds all seven
\* contract fields, each a string and none null.
C4_NoPartialSuccess ==
    (Finished(TS) /\ response.status = 200)
        => /\ DOMAIN response.body = Fields
           /\ \A f \in Fields : response.body[f] = "string"

\* the completion text has no "{" with a "}" after it
NoBracePair(c) == ~ \E i, j \in 1 .. Len(c) : i < j /\ c[i] = "{" /\ c[j] = "}"
\* the substring from the first "{" to the last "}"
Embedded(c) == SubSeq(c, SetMin(Positions(c, "{")), SetMax(Positions(c, "}")))
ExtractionFails(c) == NoBracePair(c) \/ ~ JsonLoads(Embedded(c)).ok

\* C5 as stated: when extraction fails on the completion text, the request
\* ends with 500 and the message "JSON not found in GPT response".
C5_ExtractionFailure ==
    (Finished(TS) /\ completion # <<>> /\ ExtractionFails(completion[1]))
        => IsError(NotFoundMsg, 500)

\* C5 amended: when extraction fails on the completion text, the request ends
\* with 500 and an error body, never a contract; the message is "JSON not
\* found in GPT response" when the text has no brace pair, and the JSON
\* parser's own message when the embedded substring does not parse.
C5_ExtractionFailureAmended ==
    (Finished(TS) /\ completion # <<>> /\ ExtractionFails(completion[1]))
        => IF NoBracePair(completion[1])
           THEN IsError(NotFoundMsg, 500)
           ELSE IsError(JsonDecodeMsg, 500)

C5_Witness ==
    /\ Finished(TS) /\ completion # <<>>
    /\ ~ NoBracePair(completion[1]) /\ ExtractionFails(completion[1])
    /\ response.status = 500

\* C6: a /tts request whose synthesis call fails ends with 500 and a JSON
\* {error} body, and every /tts request ends with an audio/mpeg stream or a
\* JSON {error} body with status 400 or 500.
C6_TtsFailure ==
    Finished(TTS) =>
        /\ Has("tts_err") =>
               /\ response.status = 500
               /\ response.type = "application/json"
               /\ DOMAIN response.body = {"error"}
        /\ \/ response.type = "audio/mpeg"
           \/ /\ response.type = "application/json"
              /\ DOMAIN response.body = {"error"}
              /\ response.status \in {400, 500}

\* the lines the request in progress appended that record an error
ErrLines == { i \in logMark + 1 .. Len(log) : log[i].action \in {"WHISPER_ERR", "GPT_ERR"} }

C8_ScratchCleaned == pc \in {"idle", "done"} => scratch = {}

\* C9: within one /transcribe_and_summarize request there is at most one
\* transcription call and at most one chat completion call; the chat
\* completion call comes only after the transcription, when there is one,
\* returned a text that is not empty once trimmed; extraction comes only
\* after the chat completion returned; and a failed transcription ends the
\* request with 500 and without a chat completion call.
C9_StepsOrdered ==
    endpoint = TS =>
        /\ Cardinality(CallsTo("stt")) <= 1 /\ Times("stt_call") <= 1
        /\ Cardinality(CallsTo("chat")) <= 1 /\ Times("chat_call") <= 1
        /\ \A i \in CallsTo("stt") : \A j \in CallsTo("chat") : i < j
        /\ (CarriesAudio /\ CallsTo("chat") # {}) =>
               /\ Before("stt_ok", "chat_call")
               /\ transcript # <<>> /\ StrLen(Strip(transcript[1])) > 0
        /\ Before("chat_call", "chat_ok") /\ Before("chat_ok", "extract")
        /\ Times("extract") <= 1
        /\ Has("stt_err") =>
               /\ pc = "done" /\ response.status = 500
               /\ CallsTo("chat") = {} /\ ~ Has("chat_call")

C9_Witness == Finished(TS) /\ Has("stt_ok") /\ Has("extract") /\ response.status = 200

\* C10: when a request carries both an audio file with a filename and a
\* non-empty text_input, the transcription call is made and the text sent to
\* the chat completion is the trimmed transcription, never text_input; an
\* empty trimmed transcription ends the request with 400 "No input", and a
\* failed transcription ends it with 500.
C10_AudioWins ==
    (endpoint = TS /\ CarriesAudio /\ CarriesText) =>
        /\ CallsTo("stt") # {}
        /\ \A i \in CallsTo("chat") :
               /\ transcript # <<>>
               /\ calls[i].user.text = Strip(transcript[1])
               /\ calls[i].user.text.tag # "typed"
        /\ (transcript # <<>> /\ StrLen(Strip(transcript[1])) = 0) =>
               pc = "done" /\ IsError("No input", 400)
        /\ Has("stt_err") => pc = "done" /\ response.status = 500

C10_Witness ==
    /\ Finished(TS) /\ CarriesAudio /\ CarriesText
    /\ StrLen(Strip(form.text_input[1])) > 0
    /\ transcript # <<>> /\ StrLen(Strip(transcript[1])) = 0
    /\ response.status = 400

====
